---------------------------- MODULE Spec2Model ----------------------------
(***************************************************************************)
(* http-kit: the retry loop of Client.DoRequestWithRetry (retry.go), the   *)
(* policy functions of RetryOptions it uses, and Client.Do (client.go).    *)
(*                                                                         *)
(* One call of DoRequestWithRetry is modelled as a sequential process with *)
(* a program counter; the context's cancellation and the outcomes of the   *)
(* underlying http.Client are chosen by the environment.                   *)
(*                                                                         *)
(* Conventions                                                             *)
(*  - a pointer that may be nil is a sequence of length 0 (nil) or 1;      *)
(*  - an error is a record [msg, wraps, status]: msg is the error's own    *)
(*    text, wraps the text of the error wrapped with %w ("" if none) and   *)
(*    status the status code formatted into the text (0 if none);          *)
(*  - a response is named by the index of the invocation that produced it  *)
(*    (0 is the nil response);                                             *)
(*  - a time.Duration is an integer count of ticks;                        *)
(*  - a float64 multiplier is a fraction <<num, den>> with den > 0, and    *)
(*    the conversion of a float64 to a Duration truncates toward zero.     *)
(***************************************************************************)
EXTENDS Integers, Sequences, FiniteSets, TLC

VARIABLES
    retryOpts,   \* *RetryOptions argument / local: <<>> is nil, <<p>> points to p
    ctxErr,      \* ctx.Err(): NilError until the context is cancelled
    userAgent,   \* Client.userAgent
    reqUA,       \* req.Header.Get("User-Agent")
    pc,          \* position of the call in DoRequestWithRetry
    attempt,     \* loop variable
    maxAttempts, \* local maxAttempts
    lastErr,     \* local lastErr
    delay,       \* local delay of the current backoff wait
    outcomes,    \* outcome of every c.Do invocation made so far, in order
    waits,       \* delay of every backoff wait begun so far, in order
    closed,      \* invocations whose response body has been closed
    result,      \* <<>> while running, <<[resp, err]>> once returned
    cancelAt,    \* where the call stood when the context was cancelled
    optsArg,     \* the caller's retryOpts argument, as passed
    call,        \* the last direct call of a RetryOptions function and its result
    reqOther,    \* the headers of req other than User-Agent
    elapsed,     \* number of backoff waits ended by their timer
    calls,       \* the locals of each of several concurrent calls
    newClient,   \* a call of NewClient or Options.Validate: arguments, files, result
    goarch,      \* the architecture the program is built for
    heap         \* the RetryOptions objects allocated so far and the last use of one

vars == <<retryOpts, ctxErr, userAgent, reqUA, pc, attempt, maxAttempts,
          lastErr, delay, outcomes, waits, closed, result, cancelAt, optsArg, call,
          reqOther, elapsed, calls, newClient, goarch, heap>>

\* no direct call of a RetryOptions function has been made
NoCall ==
    [fn |-> "", err |-> [msg |-> "nil", wraps |-> "", status |-> 0], statusCode |-> 0,
     attempt |-> 0, retBool |-> FALSE, retDelay |-> 0, retOpts |-> << >>]

-----------------------------------------------------------------------------
(* Bounds of the model *)

MaxRetriesBound == 2
MaxDelayBound == 1

-----------------------------------------------------------------------------
(* Errors *)

NilError == [msg |-> "nil", wraps |-> "", status |-> 0]

NewError(m) == [msg |-> m, wraps |-> "", status |-> 0]

\* fmt.Errorf(m + ": %w", e)
WrapError(m, e) == [msg |-> m, wraps |-> e.msg, status |-> 0]

\* fmt.Errorf("server error: status %d", code)
ServerError(code) == [msg |-> "server error: status", wraps |-> "", status |-> code]

\* errors a context reports once it is done
ContextErrors == {NewError("context canceled"), NewError("context deadline exceeded")}

\* errors http.Client.Do may return
TransportErrors == {NewError("connection refused"), NewError("EOF")}

\* status codes the server may answer with
StatusCodes == {200, 503}

\* what one invocation of c.Do yields: an error and no response, or a response
Outcomes ==
    [err : TransportErrors, status : {0}] \cup [err : {NilError}, status : StatusCodes]

-----------------------------------------------------------------------------
(* RetryOptions *)

Multipliers == {<<0, 1>>, <<1, 2>>, <<1, 1>>, <<2, 1>>}

CodeLists == {<< >>, <<500, 503>>}

Policies ==
    [MaxRetries : (0 - MaxRetriesBound)..MaxRetriesBound,
     RetryDelay : 0..MaxDelayBound,
     MaxRetryDelay : 0..(MaxDelayBound + 1),
     BackoffMultiplier : Multipliers,
     RetryableStatusCodes : CodeLists]

Millisecond == 1000

\* variant: two codes of the list change places
DefaultRetryOptions_Reordered ==
    [MaxRetries |-> 3,
     RetryDelay |-> 100 * Millisecond,
     MaxRetryDelay |-> 2 * 1000 * Millisecond,
     BackoffMultiplier |-> <<2, 1>>,
     RetryableStatusCodes |-> <<408, 429, 500, 503, 502, 504>>]

DefaultRetryOptions ==
    [MaxRetries |-> 3,
     RetryDelay |-> 100 * Millisecond,
     MaxRetryDelay |-> 2 * 1000 * Millisecond,
     BackoffMultiplier |-> <<2, 1>>,
     RetryableStatusCodes |-> <<408, 429, 500, 502, 503, 504>>]

\* variant: the MaxRetries == 0 test is missing
IsRetryableError_NoZeroTest(r, err, statusCode) ==
    IF err # NilError THEN TRUE
    ELSE \E i \in 1..Len(r.RetryableStatusCodes) : r.RetryableStatusCodes[i] = statusCode

\* variant: every response is retryable, whatever its status
IsRetryableError_AnyStatus(r, err, statusCode) ==
    IF r.MaxRetries = 0 THEN FALSE ELSE TRUE

\* variant: the error is ignored, only the status code decides
IsRetryableError_IgnoreErr(r, err, statusCode) ==
    IF r.MaxRetries = 0 THEN FALSE
    ELSE \E i \in 1..Len(r.RetryableStatusCodes) : r.RetryableStatusCodes[i] = statusCode

\* variant: only the first code of the list is compared
IsRetryableError_FirstCodeOnly(r, err, statusCode) ==
    IF r.MaxRetries = 0 THEN FALSE
    ELSE IF err # NilError THEN TRUE
    ELSE Len(r.RetryableStatusCodes) >= 1 /\ r.RetryableStatusCodes[1] = statusCode

IsRetryableError(r, err, statusCode) ==
    IF r.MaxRetries = 0 THEN FALSE
    ELSE IF err # NilError THEN TRUE
    ELSE \E i \in 1..Len(r.RetryableStatusCodes) : r.RetryableStatusCodes[i] = statusCode

\* the float64 n / d with its fraction dropped
Trunc(n, d) == IF n >= 0 THEN n \div d ELSE 0 - ((0 - n) \div d)

\* the range of time.Duration (an int64 in the program, narrower here)
MaxDuration == 16777215
MinDuration == 0 - MaxDuration - 1

InRange(t) == MinDuration <= t /\ t <= MaxDuration

\* the architectures a build can target, by what their conversion of a
\* float64 outside the range of int64 gives: the smallest int64 on amd64, the
\* nearest end of the range on arm64
GoArchs == {"amd64", "arm64"}

\* time.Duration(f) for the float64 f = n / d in a build for g: the fraction
\* is dropped, and a value outside the range of Duration converts to what
\* the build gives
ToDurationOn(g, n, d) ==
    IF InRange(Trunc(n, d)) THEN Trunc(n, d)
    ELSE IF g = "amd64" THEN MinDuration
    ELSE IF n > 0 THEN MaxDuration ELSE MinDuration

\* time.Duration(f) in the build that runs
ToDuration(n, d) == ToDurationOn(goarch, n, d)

\* variant: attempt for attempt+1
CalculateRetryDelay_ZeroBased(r, a) ==
    LET d == ToDuration(r.RetryDelay * a * r.BackoffMultiplier[1], r.BackoffMultiplier[2])
    IN  IF d > r.MaxRetryDelay THEN r.MaxRetryDelay ELSE d

\* variant: the cap is missing
CalculateRetryDelay_NoCap(r, a) ==
    ToDuration(r.RetryDelay * (a + 1) * r.BackoffMultiplier[1], r.BackoffMultiplier[2])

\* retry.go 59-65, in a build for g
CalculateRetryDelayOn(g, r, a) ==
    LET d == ToDurationOn(g, r.RetryDelay * (a + 1) * r.BackoffMultiplier[1],
                          r.BackoffMultiplier[2])
    IN  IF d > r.MaxRetryDelay THEN r.MaxRetryDelay ELSE d

\* retry.go 59-65
CalculateRetryDelay(r, a) ==
    LET d == ToDuration(r.RetryDelay * (a + 1) * r.BackoffMultiplier[1], r.BackoffMultiplier[2])
    IN  IF d > r.MaxRetryDelay THEN r.MaxRetryDelay ELSE d

-----------------------------------------------------------------------------
(* The call *)

\* variant: the initial attempt is not counted
MaxAttempts_NoInitial(r) == r.MaxRetries

\* retry.go 76
MaxAttempts(r) == r.MaxRetries + 1

\* variant: <= for <
LoopCond_Inclusive(a, m) == a <= m

\* retry.go 78: the loop condition
LoopCond(a, m) == a < m

\* retry.go 98: a transport error on the last allowed attempt
BudgetExhausted(r, a) == a >= r.MaxRetries

\* variant: <= for <
RetriesLeft_Inclusive(r, a) == a <= r.MaxRetries

\* retry.go 105: retries are left after this attempt
RetriesLeft(r, a) == a < r.MaxRetries

\* variant: a nil policy becomes the zero RetryOptions
ResolveOpts_ZeroValue(o) ==
    IF o = << >>
    THEN <<[MaxRetries |-> 0, RetryDelay |-> 0, MaxRetryDelay |-> 0,
            BackoffMultiplier |-> <<0, 1>>, RetryableStatusCodes |-> << >>]>>
    ELSE o

\* retry.go 69-71: a nil policy is replaced by the default one
ResolveOpts(o) == IF o = << >> THEN <<DefaultRetryOptions>> ELSE o

\* variant: the first error recorded is kept
RecordErr_KeepFirst(prev, e) == IF prev = NilError THEN e ELSE prev

\* retry.go 94: lastErr = err
RecordErr(prev, e) == e

UserAgents == {"", "http-kit"}
RequestAgents == {"", "curl"}

\* the headers a request carries besides User-Agent
RequestHeaders == [Accept |-> "application/json"]

\* no concurrent calls are running
NoCalls == << >>

\* nil *Options, nil *Client
NoOptions == << >>

\* no RetryOptions object has been allocated
NoHeap ==
    [objs |-> << >>, fn |-> "", arg |-> 0, ret |-> 0, used |-> << >>,
     retBool |-> FALSE, retDelay |-> 0, result |-> << >>]

\* neither NewClient nor Options.Validate has been called
NoNewClient ==
    [opts |-> NoOptions, caFile |-> "", keyPair |-> "", fn |-> "",
     client |-> << >>, err |-> NilError]

Init ==
    /\ retryOpts \in {<< >>} \cup {<<p>> : p \in Policies}
    /\ ctxErr \in {NilError} \cup ContextErrors
    /\ userAgent \in UserAgents
    /\ reqUA \in RequestAgents
    /\ pc = "entry"
    /\ attempt = 0
    /\ maxAttempts = 0
    /\ lastErr = NilError
    /\ delay = 0
    /\ outcomes = << >>
    /\ waits = << >>
    /\ closed = {}
    /\ result = << >>
    /\ cancelAt = [pc |-> IF ctxErr = NilError THEN "never" ELSE "before", n |-> 0]
    /\ optsArg = retryOpts
    /\ call = NoCall
    /\ reqOther = RequestHeaders
    /\ elapsed = 0
    /\ calls = NoCalls
    /\ newClient = NoNewClient
    /\ goarch = "amd64"
    /\ heap = NoHeap

\* the caller cancels the context, or its deadline passes
Cancel ==
    /\ ctxErr = NilError
    /\ pc # "done"
    /\ \E e \in ContextErrors : ctxErr' = e
    /\ cancelAt' = [pc |-> pc, n |-> Len(outcomes)]
    /\ UNCHANGED <<retryOpts, userAgent, reqUA, pc, attempt, maxAttempts,
                   lastErr, delay, outcomes, waits, closed, result, optsArg, call,
                   reqOther, elapsed, calls, newClient,
                   goarch, heap>>

\* variant: a failed call hands back the last response it saw, if any
Return_KeepResponse(resp, err) ==
    /\ result' = <<[resp |-> IF closed # {} THEN Len(outcomes) ELSE resp, err |-> err]>>
    /\ pc' = "done"

\* return resp, err
Return(resp, err) == result' = <<[resp |-> resp, err |-> err]>> /\ pc' = "done"

\* retry.go 69-78: nil policy, locals, attempt := 0
Enter ==
    /\ pc = "entry"
    /\ retryOpts' = ResolveOpts(retryOpts)
    /\ lastErr' = NilError
    /\ maxAttempts' = MaxAttempts(retryOpts'[1])
    /\ attempt' = 0
    /\ pc' = "loop"
    /\ UNCHANGED <<ctxErr, userAgent, reqUA, delay, outcomes, waits, closed, result, cancelAt, optsArg, call,
                   reqOther, elapsed, calls, newClient,
                   goarch, heap>>

\* variant: the first attempt is preceded by a wait too
NeedsWait_Always(a) == TRUE

\* retry.go 79: only a retry waits
NeedsWait(a) == a > 0

\* retry.go 78-83: loop condition; a retry first computes its delay and waits
LoopHead ==
    /\ pc = "loop"
    /\ IF LoopCond(attempt, maxAttempts)
       THEN IF NeedsWait(attempt)
            THEN /\ delay' = CalculateRetryDelay(retryOpts[1], attempt - 1)
                 /\ waits' = Append(waits, delay')
                 /\ pc' = "wait"
            ELSE /\ pc' = "do"
                 /\ UNCHANGED <<delay, waits>>
       ELSE /\ pc' = "after"
            /\ UNCHANGED <<delay, waits>>
    /\ UNCHANGED <<retryOpts, ctxErr, userAgent, reqUA, attempt, maxAttempts,
                   lastErr, outcomes, closed, result, cancelAt, optsArg, call,
                   reqOther, elapsed, calls, newClient,
                   goarch, heap>>

\* variant: the cancellation is reported as a retry failure
WaitCancelled_Wrapped ==
    /\ pc = "wait"
    /\ ctxErr # NilError
    /\ Return(0, WrapError("failed after retries", ctxErr))
    /\ UNCHANGED <<retryOpts, ctxErr, userAgent, reqUA, attempt, maxAttempts,
                   lastErr, delay, outcomes, waits, closed, cancelAt, optsArg, call,
                   reqOther, elapsed, calls, newClient,
                   goarch, heap>>

\* variant: the context is also consulted before an attempt is issued
ObservesCancel_BeforeAttempt(p) == p \in {"wait", "do"}

\* retry.go 84: the only place where the call receives from ctx.Done()
ObservesCancel(p) == p = "wait"

\* retry.go 84-86: the select takes <-ctx.Done().  The case is ready as soon
\* as the context is cancelled.
WaitCancelled ==
    /\ ObservesCancel(pc)
    /\ ctxErr # NilError
    /\ Return(0, ctxErr)
    /\ UNCHANGED <<retryOpts, ctxErr, userAgent, reqUA, attempt, maxAttempts,
                   lastErr, delay, outcomes, waits, closed, cancelAt, optsArg, call,
                   reqOther, elapsed, calls, newClient,
                   goarch, heap>>

\* The timer case of the select can be taken: a timer of a delay <= 0 is
\* ready when the select polls its cases, whether the context is cancelled
\* or not (the select then picks either ready case); a timer of a positive
\* delay fires only while the call is blocked in the select, which a
\* cancelled context never lets it be.
TimerReady == delay <= 0 \/ ctxErr = NilError

\* retry.go 87-89: the select takes <-time.After(delay)
WaitElapsed ==
    /\ pc = "wait"
    /\ TimerReady
    /\ pc' = "do"
    /\ elapsed' = elapsed + 1
    /\ UNCHANGED <<retryOpts, ctxErr, userAgent, reqUA, attempt, maxAttempts,
                   lastErr, delay, outcomes, waits, closed, result, cancelAt, optsArg, call,
                   reqOther, calls, newClient,
                   goarch, heap>>

\* variant: Client.Do overwrites the User-Agent header of the request
DoHeader_Overwrite == IF userAgent # "" THEN userAgent ELSE reqUA

\* client.go 113-118: Client.Do sets the User-Agent header if it is missing
DoHeader == IF userAgent # "" /\ reqUA = "" THEN userAgent ELSE reqUA

\* variant: the body of a response that is retried is left open
CloseBody_Leak(cl, i) == cl

\* retry.go 107: resp.Body.Close() of the response of invocation i
CloseBody(cl, i) == cl \cup {i}

\* retry.go 92-102: c.Do returns an error
DoError ==
    /\ pc = "do"
    /\ reqUA' = DoHeader
    /\ \E o \in Outcomes :
        /\ o.err # NilError
        /\ outcomes' = Append(outcomes, o)
        /\ lastErr' = RecordErr(lastErr, o.err)
        /\ IF ~IsRetryableError(retryOpts[1], o.err, 0)
           THEN /\ Return(0, WrapError("failed to execute request", o.err))
                /\ UNCHANGED attempt
           ELSE IF BudgetExhausted(retryOpts[1], attempt)
           THEN /\ Return(0, WrapError("failed to execute request after retries", lastErr'))
                /\ UNCHANGED attempt
           ELSE /\ attempt' = attempt + 1
                /\ pc' = "loop"
                /\ UNCHANGED result
    /\ UNCHANGED <<retryOpts, ctxErr, userAgent, maxAttempts, delay, waits, closed, cancelAt, optsArg, call,
                   reqOther, elapsed, calls, newClient,
                   goarch, heap>>

\* retry.go 92, 104-113: c.Do returns a response
DoResponse ==
    /\ pc = "do"
    /\ reqUA' = DoHeader
    /\ \E o \in Outcomes :
        /\ o.err = NilError
        /\ outcomes' = Append(outcomes, o)
        /\ IF IsRetryableError(retryOpts[1], NilError, o.status)
              /\ RetriesLeft(retryOpts[1], attempt)
           THEN /\ closed' = CloseBody(closed, Len(outcomes'))
                /\ lastErr' = ServerError(o.status)
                /\ attempt' = attempt + 1
                /\ pc' = "loop"
                /\ UNCHANGED result
           ELSE /\ Return(Len(outcomes'), NilError)
                /\ UNCHANGED <<closed, lastErr, attempt>>
    /\ UNCHANGED <<retryOpts, ctxErr, userAgent, maxAttempts, delay, waits, cancelAt, optsArg, call,
                   reqOther, elapsed, calls, newClient,
                   goarch, heap>>

\* retry.go 116-120: the code after the loop
AfterLoop ==
    /\ pc = "after"
    /\ IF lastErr # NilError
       THEN Return(0, WrapError("failed after retries", lastErr))
       ELSE Return(0, NewError("no attempts made"))
    /\ UNCHANGED <<retryOpts, ctxErr, userAgent, reqUA, attempt, maxAttempts,
                   lastErr, delay, outcomes, waits, closed, cancelAt, optsArg, call,
                   reqOther, elapsed, calls, newClient,
                   goarch, heap>>

DoRequestWithRetry ==
    \/ Enter
    \/ LoopHead
    \/ WaitCancelled
    \/ WaitElapsed
    \/ DoError
    \/ DoResponse
    \/ AfterLoop

Next == Cancel \/ DoRequestWithRetry

Spec == Init /\ [][Next]_vars

\* The call keeps running: every invocation of the http.Client returns (its
\* Timeout or the transport ends it), every timer of time.After fires, and
\* the goroutine of the call is scheduled.  Nothing obliges the caller to
\* cancel the context.
Fairness == WF_vars(DoRequestWithRetry)

FairSpec == Spec /\ Fairness

-----------------------------------------------------------------------------
(* Direct calls of the RetryOptions functions: a second specification, in   *)
(* which a caller holds a policy and calls its functions with arguments of  *)
(* its choice.                                                              *)

MaxAttemptArg == 5

\* policies of the tests of CalculateRetryDelay
ExamplePolicies ==
    {[MaxRetries |-> 3, RetryDelay |-> rd * Millisecond, MaxRetryDelay |-> mrd * Millisecond,
      BackoffMultiplier |-> m, RetryableStatusCodes |-> <<503>>] :
        <<rd, mrd, m>> \in {<<100, 2000, <<2, 1>>>>, <<500, 1000, <<2, 1>>>>,
                            <<100, 2000, <<1, 1>>>>}}

CodeListInputs == {<< >>, <<503>>, <<500, 503>>, <<503, 500>>, <<503, 503>>}

\* policies whose delays are as long as a Duration can be
LongestPolicies ==
    {[MaxRetries |-> 3, RetryDelay |-> rd, MaxRetryDelay |-> MaxDuration,
      BackoffMultiplier |-> m, RetryableStatusCodes |-> <<503>>] :
        rd \in {MaxDuration \div 2, MaxDuration}, m \in {<<1, 1>>, <<2, 1>>}}

PolicyInputs ==
    [MaxRetries : (0 - 1)..1,
     RetryDelay : (0 - 1)..(MaxDelayBound + 1),
     MaxRetryDelay : (0 - 1)..(MaxDelayBound + 1),
     BackoffMultiplier : Multipliers \cup {<<3, 2>>},
     RetryableStatusCodes : CodeListInputs]
    \cup ExamplePolicies
    \cup LongestPolicies

ErrInputs == {NilError} \cup TransportErrors
StatusInputs == {0, 200, 500, 503}

InitPolicy ==
    /\ retryOpts \in {<<p>> : p \in PolicyInputs}
    /\ optsArg = retryOpts
    /\ call = NoCall
    /\ ctxErr = NilError
    /\ userAgent = ""
    /\ reqUA = ""
    /\ pc = "policy"
    /\ attempt = 0
    /\ maxAttempts = 0
    /\ lastErr = NilError
    /\ delay = 0
    /\ outcomes = << >>
    /\ waits = << >>
    /\ closed = {}
    /\ result = << >>
    /\ cancelAt = [pc |-> "never", n |-> 0]
    /\ reqOther = RequestHeaders
    /\ elapsed = 0
    /\ calls = NoCalls
    /\ newClient = NoNewClient
    /\ goarch \in GoArchs
    /\ heap = NoHeap

\* r.IsRetryableError(err, statusCode)
CallIsRetryableError ==
    /\ pc = "policy"
    /\ \E e \in ErrInputs, c \in StatusInputs :
        call' = [NoCall EXCEPT !.fn = "IsRetryableError", !.err = e, !.statusCode = c,
                               !.retBool = IsRetryableError(retryOpts[1], e, c)]
    /\ UNCHANGED <<retryOpts, ctxErr, userAgent, reqUA, pc, attempt, maxAttempts,
                   lastErr, delay, outcomes, waits, closed, result, cancelAt, optsArg,
                   reqOther, elapsed, calls, newClient,
                   goarch, heap>>

\* r.CalculateRetryDelay(attempt)
CallCalculateRetryDelay ==
    /\ pc = "policy"
    /\ \E a \in 0..MaxAttemptArg :
        call' = [NoCall EXCEPT !.fn = "CalculateRetryDelay", !.attempt = a,
                               !.retDelay = CalculateRetryDelay(retryOpts[1], a)]
    /\ UNCHANGED <<retryOpts, ctxErr, userAgent, reqUA, pc, attempt, maxAttempts,
                   lastErr, delay, outcomes, waits, closed, result, cancelAt, optsArg,
                   reqOther, elapsed, calls, newClient,
                   goarch, heap>>

\* DefaultRetryOptions()
CallDefaultRetryOptions ==
    /\ pc = "policy"
    /\ call' = [NoCall EXCEPT !.fn = "DefaultRetryOptions", !.retOpts = <<DefaultRetryOptions>>]
    /\ UNCHANGED <<retryOpts, ctxErr, userAgent, reqUA, pc, attempt, maxAttempts,
                   lastErr, delay, outcomes, waits, closed, result, cancelAt, optsArg,
                   reqOther, elapsed, calls, newClient,
                   goarch, heap>>

NextPolicy ==
    \/ CallIsRetryableError
    \/ CallCalculateRetryDelay
    \/ CallDefaultRetryOptions

SpecPolicy == InitPolicy /\ [][NextPolicy]_vars

-----------------------------------------------------------------------------
(* NewClient and Options.Validate (client.go): a third specification, in    *)
(* which a caller holds options, the files they name are in some condition, *)
(* and the caller validates the options or builds a client from them.       *)
(*                                                                          *)
(* A transport is a record: kind is "nil" (no transport), "custom" (the     *)
(* caller's own RoundTripper) or "tls" (an http.Transport built by          *)
(* NewClient); the other fields are those of its TLSClientConfig, with      *)
(* RootCAs TRUE when a pool was installed and Certificates the number of    *)
(* client certificates.                                                     *)

Second == 1000 * Millisecond

NilTransport ==
    [kind |-> "nil", InsecureSkipVerify |-> FALSE, ServerName |-> "",
     RootCAs |-> FALSE, Certificates |-> 0]

\* the caller's transport, as in the test "with custom transport"
CustomTransport == [NilTransport EXCEPT !.kind = "custom"]

\* client.go 37-41
DefaultOptions ==
    [BaseURL |-> "", Timeout |-> 10 * Second, UserAgent |-> "",
     Transport |-> NilTransport, TLSCACertFile |-> "", TLSClientCert |-> "",
     TLSClientKey |-> "", TLSServerName |-> "", InsecureSkipVerify |-> FALSE]

OptionsInputs ==
    [BaseURL : {"", "http://example.com"},
     Timeout : {5 * Second},
     UserAgent : {"test-agent"},
     Transport : {NilTransport, CustomTransport},
     TLSCACertFile : {"", "ca.crt"},
     TLSClientCert : {"", "client.crt"},
     TLSClientKey : {"", "client.key"},
     TLSServerName : {"", "custom.example.com"},
     InsecureSkipVerify : BOOLEAN]

\* what os.ReadFile and AppendCertsFromPEM make of the CA file
CAFileStates == {"unreadable", "unparsable", "valid"}

\* what tls.LoadX509KeyPair makes of the certificate and key files
KeyPairStates == {"unloadable", "valid"}

\* client.go 44-49
Validate(o) ==
    IF o.BaseURL = "" THEN NewError("base URL is required") ELSE NilError

\* variant: no TLS configuration is prepared when the caller brings a transport
BuildsTLSConfig_UnlessTransport(o) ==
    /\ o.Transport = NilTransport
    /\ (o.TLSCACertFile # "" \/ o.TLSClientCert # "" \/ o.InsecureSkipVerify)

\* client.go 63
BuildsTLSConfig(o) ==
    o.TLSCACertFile # "" \/ o.TLSClientCert # "" \/ o.InsecureSkipVerify

\* client.go 83
LoadsKeyPair(o) == o.TLSClientCert # "" /\ o.TLSClientKey # ""

\* client.go 62-90: the tls.Config pointer (<<>> is nil) and the error
TLSConfig(o, ca, kp) ==
    IF ~BuildsTLSConfig(o)
    THEN [cfg |-> << >>, err |-> NilError]
    ELSE IF o.TLSCACertFile # "" /\ ca = "unreadable"
    THEN [cfg |-> << >>,
          err |-> WrapError("failed to read CA certificate",
                            NewError("no such file or directory"))]
    ELSE IF o.TLSCACertFile # "" /\ ca = "unparsable"
    THEN [cfg |-> << >>, err |-> NewError("failed to parse CA certificate")]
    ELSE IF LoadsKeyPair(o) /\ kp = "unloadable"
    THEN [cfg |-> << >>,
          err |-> WrapError("failed to load client certificate",
                            NewError("no such file or directory"))]
    ELSE [cfg |-> <<[InsecureSkipVerify |-> o.InsecureSkipVerify,
                     ServerName |-> o.TLSServerName,
                     RootCAs |-> o.TLSCACertFile # "",
                     Certificates |-> IF LoadsKeyPair(o) THEN 1 ELSE 0]>>,
          err |-> NilError]

\* client.go 99-101: &http.Transport{TLSClientConfig: tlsConfig}
TLSTransport(c) ==
    [kind |-> "tls", InsecureSkipVerify |-> c.InsecureSkipVerify,
     ServerName |-> c.ServerName, RootCAs |-> c.RootCAs,
     Certificates |-> c.Certificates]

\* variant: a TLS configuration takes precedence over the caller's transport
ChooseTransport_TLSFirst(o, cfg) ==
    IF cfg # << >> THEN TLSTransport(cfg[1]) ELSE o.Transport

\* client.go 97-103
ChooseTransport(o, cfg) ==
    IF o.Transport # NilTransport
    THEN o.Transport
    ELSE IF cfg # << >> THEN TLSTransport(cfg[1]) ELSE NilTransport

\* client.go 52-110: the returned pair
NewClient(opts, ca, kp) ==
    LET o == IF opts = NoOptions THEN DefaultOptions ELSE opts[1]
        t == TLSConfig(o, ca, kp)
    IN  IF Validate(o) # NilError
        THEN [client |-> << >>, err |-> Validate(o)]
        ELSE IF t.err # NilError
        THEN [client |-> << >>, err |-> t.err]
        ELSE [client |-> <<[httpClient |-> [Timeout |-> o.Timeout,
                                            Transport |-> ChooseTransport(o, t.cfg)],
                            baseURL |-> o.BaseURL,
                            userAgent |-> o.UserAgent]>>,
              err |-> NilError]

InitClient ==
    /\ \E o \in {NoOptions} \cup {<<x>> : x \in OptionsInputs},
          ca \in CAFileStates, kp \in KeyPairStates :
          newClient = [NoNewClient EXCEPT !.opts = o, !.caFile = ca, !.keyPair = kp]
    /\ retryOpts = << >>
    /\ optsArg = << >>
    /\ call = NoCall
    /\ ctxErr = NilError
    /\ userAgent = ""
    /\ reqUA = ""
    /\ pc = "client"
    /\ attempt = 0
    /\ maxAttempts = 0
    /\ lastErr = NilError
    /\ delay = 0
    /\ outcomes = << >>
    /\ waits = << >>
    /\ closed = {}
    /\ result = << >>
    /\ cancelAt = [pc |-> "never", n |-> 0]
    /\ reqOther = RequestHeaders
    /\ elapsed = 0
    /\ calls = NoCalls
    /\ goarch = "amd64"
    /\ heap = NoHeap

\* opts.Validate(), on options that are not nil
CallValidate ==
    /\ pc = "client"
    /\ newClient.opts # NoOptions
    /\ newClient' = [newClient EXCEPT !.fn = "Validate", !.client = << >>,
                                      !.err = Validate(newClient.opts[1])]
    /\ UNCHANGED <<retryOpts, ctxErr, userAgent, reqUA, pc, attempt, maxAttempts,
                   lastErr, delay, outcomes, waits, closed, result, cancelAt, optsArg,
                   call, reqOther, elapsed, calls,
                   goarch, heap>>

\* NewClient(opts)
CallNewClient ==
    /\ pc = "client"
    /\ LET r == NewClient(newClient.opts, newClient.caFile, newClient.keyPair)
       IN  newClient' = [newClient EXCEPT !.fn = "NewClient", !.client = r.client,
                                          !.err = r.err]
    /\ UNCHANGED <<retryOpts, ctxErr, userAgent, reqUA, pc, attempt, maxAttempts,
                   lastErr, delay, outcomes, waits, closed, result, cancelAt, optsArg,
                   call, reqOther, elapsed, calls,
                   goarch, heap>>

NextClient ==
    \/ CallValidate
    \/ CallNewClient

SpecClient == InitClient /\ [][NextClient]_vars

-----------------------------------------------------------------------------
(* Several calls of DoRequestWithRetry at once: a fourth specification.     *)
(* The calls are given the same *RetryOptions (retryOpts), each has its own *)
(* context, and calls[i] holds what call i keeps in its own frame: its      *)
(* position, its locals, and the history of its invocations and waits.  A   *)
(* step of a call is the step of the one-call specification, written on     *)
(* the locals of that call.                                                 *)

NumCalls == 2

CallIds == 1..NumCalls

\* the policies the concurrent calls are given
SharedPolicies ==
    {<<[MaxRetries |-> n, RetryDelay |-> d, MaxRetryDelay |-> 1,
        BackoffMultiplier |-> <<1, 1>>, RetryableStatusCodes |-> <<503>>]>> :
        n \in 0..1, d \in 0..1}

\* the outcomes of an invocation made by a concurrent call
SharedOutcomes == {o \in Outcomes : o.err \in {NilError, NewError("EOF")}}

\* a call about to start, with a context that may be cancelled already
InitLocals ==
    {[ctxErr |-> e, pc |-> "entry", attempt |-> 0, maxAttempts |-> 0,
      lastErr |-> NilError, delay |-> 0, outcomes |-> << >>, waits |-> << >>,
      result |-> << >>] : e \in {NilError} \cup ContextErrors}

\* return resp, err
Returned(l, resp, err) ==
    [l EXCEPT !.result = <<[resp |-> resp, err |-> err]>>, !.pc = "done"]

\* retry.go 73-78
StepEnter(l, r) ==
    IF l.pc # "entry" THEN {}
    ELSE {[l EXCEPT !.lastErr = NilError, !.maxAttempts = MaxAttempts(r),
                    !.attempt = 0, !.pc = "loop"]}

\* retry.go 78-83, in a build for g
StepLoopHead(l, r, g) ==
    IF l.pc # "loop" THEN {}
    ELSE IF LoopCond(l.attempt, l.maxAttempts)
    THEN IF NeedsWait(l.attempt)
         THEN {[l EXCEPT !.delay = CalculateRetryDelayOn(g, r, l.attempt - 1),
                         !.waits = Append(@, CalculateRetryDelayOn(g, r, l.attempt - 1)),
                         !.pc = "wait"]}
         ELSE {[l EXCEPT !.pc = "do"]}
    ELSE {[l EXCEPT !.pc = "after"]}

\* retry.go 84-89: the select on the call's own context and its own timer
StepWait(l) ==
    IF l.pc # "wait" THEN {}
    ELSE (IF l.ctxErr # NilError THEN {Returned(l, 0, l.ctxErr)} ELSE {})
         \cup (IF l.delay <= 0 \/ l.ctxErr = NilError THEN {[l EXCEPT !.pc = "do"]} ELSE {})

\* retry.go 92-113: one invocation with outcome o, and what the call makes of it
AfterDo(l, r, o) ==
    LET m == [l EXCEPT !.outcomes = Append(@, o)]
    IN  IF o.err # NilError
        THEN IF ~IsRetryableError(r, o.err, 0)
             THEN Returned([m EXCEPT !.lastErr = RecordErr(@, o.err)], 0,
                           WrapError("failed to execute request", o.err))
             ELSE IF BudgetExhausted(r, l.attempt)
             THEN Returned([m EXCEPT !.lastErr = RecordErr(@, o.err)], 0,
                           WrapError("failed to execute request after retries",
                                     RecordErr(l.lastErr, o.err)))
             ELSE [m EXCEPT !.lastErr = RecordErr(@, o.err), !.attempt = @ + 1,
                            !.pc = "loop"]
        ELSE IF IsRetryableError(r, NilError, o.status) /\ RetriesLeft(r, l.attempt)
             THEN [m EXCEPT !.lastErr = ServerError(o.status), !.attempt = @ + 1,
                            !.pc = "loop"]
             ELSE Returned(m, Len(m.outcomes), NilError)

StepDo(l, r) ==
    IF l.pc # "do" THEN {} ELSE {AfterDo(l, r, o) : o \in SharedOutcomes}

\* retry.go 116-120
StepAfter(l) ==
    IF l.pc # "after" THEN {}
    ELSE {Returned(l, 0, IF l.lastErr # NilError
                         THEN WrapError("failed after retries", l.lastErr)
                         ELSE NewError("no attempts made"))}

\* the steps of a call under policy r, in a build for g
Steps(l, r, g) ==
    StepEnter(l, r) \cup StepLoopHead(l, r, g) \cup StepWait(l) \cup StepDo(l, r)
    \cup StepAfter(l)

\* the call's own context is cancelled
StepCancel(l) ==
    IF l.ctxErr = NilError /\ l.pc # "done"
    THEN {[l EXCEPT !.ctxErr = e] : e \in ContextErrors}
    ELSE {}

RECURSIVE Closure(_, _, _)
\* the states a call run alone under policy r goes through, from the states
\* of S on
Closure(S, r, g) ==
    LET T == S \cup UNION {Steps(l, r, g) \cup StepCancel(l) : l \in S}
    IN  IF T = S THEN S ELSE Closure(T, r, g)

\* variant: the attempt counter is kept in a place all calls share
StoreLocals_SharedAttempt(cs, i, l) ==
    [j \in DOMAIN cs |-> IF j = i THEN l ELSE [cs[j] EXCEPT !.attempt = l.attempt]]

\* retry.go 73-78, 92: maxAttempts, attempt, lastErr, delay, resp and err are
\* variables of the call's own frame
StoreLocals(cs, i, l) == [cs EXCEPT ![i] = l]

InitConcurrent ==
    /\ retryOpts \in SharedPolicies
    /\ calls \in [CallIds -> InitLocals]
    /\ optsArg = retryOpts
    /\ call = NoCall
    /\ ctxErr = NilError
    /\ userAgent = ""
    /\ reqUA = ""
    /\ pc = "concurrent"
    /\ attempt = 0
    /\ maxAttempts = 0
    /\ lastErr = NilError
    /\ delay = 0
    /\ outcomes = << >>
    /\ waits = << >>
    /\ closed = {}
    /\ result = << >>
    /\ cancelAt = [pc |-> "never", n |-> 0]
    /\ reqOther = RequestHeaders
    /\ elapsed = 0
    /\ newClient = NoNewClient
    /\ goarch = "amd64"
    /\ heap = NoHeap

\* one of the calls takes a step
CallStep ==
    /\ pc = "concurrent"
    /\ \E i \in CallIds : \E l \in Steps(calls[i], retryOpts[1], goarch) :
          calls' = StoreLocals(calls, i, l)
    /\ UNCHANGED <<retryOpts, ctxErr, userAgent, reqUA, pc, attempt, maxAttempts,
                   lastErr, delay, outcomes, waits, closed, result, cancelAt, optsArg,
                   call, reqOther, elapsed, newClient,
                   goarch, heap>>

\* the context of one of the calls is cancelled
CallCancel ==
    /\ pc = "concurrent"
    /\ \E i \in CallIds : \E l \in StepCancel(calls[i]) :
          calls' = StoreLocals(calls, i, l)
    /\ UNCHANGED <<retryOpts, ctxErr, userAgent, reqUA, pc, attempt, maxAttempts,
                   lastErr, delay, outcomes, waits, closed, result, cancelAt, optsArg,
                   call, reqOther, elapsed, newClient,
                   goarch, heap>>

NextConcurrent ==
    \/ CallStep
    \/ CallCancel

SpecConcurrent == InitConcurrent /\ [][NextConcurrent]_vars

-----------------------------------------------------------------------------
(* The policy as an object: a fifth specification.  heap.objs holds the     *)
(* RetryOptions objects allocated so far, a pointer being an index into it  *)
(* (0 is nil).  A caller obtains policies from DefaultRetryOptions, writes  *)
(* to the policies it holds, and passes them, or nil, to the functions of   *)
(* retry.go.  heap.fn, heap.arg, heap.used and the result fields describe   *)
(* the last of these steps.                                                 *)

MaxObjects == 3

\* the policies an object can hold: the default, and what a caller writes
\* over a policy it holds
HeapPolicies ==
    <<DefaultRetryOptions,
      [DefaultRetryOptions EXCEPT !.MaxRetries = 0],
      [DefaultRetryOptions EXCEPT !.RetryableStatusCodes = <<200>>, !.RetryDelay = 0]>>

CallerWrites == {HeapPolicies[2], HeapPolicies[3]}

\* variant: DefaultRetryOptions hands out one package-level object
AllocDefault_Singleton(objs) ==
    IF objs = << >>
    THEN [objs |-> <<DefaultRetryOptions>>, addr |-> 1]
    ELSE [objs |-> objs, addr |-> 1]

\* retry.go 20-35: return &RetryOptions{...}, a new object with a new slice
AllocDefault(objs) ==
    [objs |-> Append(objs, DefaultRetryOptions), addr |-> Len(objs) + 1]

\* the results a whole call of DoRequestWithRetry can return under policy r
\* in a build for g
Results(r, g) == {l.result : l \in {m \in Closure(InitLocals, r, g) : m.pc = "done"}}

ResultsOf ==
    [g \in GoArchs, r \in {DefaultRetryOptions} \cup CallerWrites |-> Results(r, g)]

InitHeap ==
    /\ heap = NoHeap
    /\ goarch = "amd64"
    /\ retryOpts = << >>
    /\ optsArg = << >>
    /\ call = NoCall
    /\ ctxErr = NilError
    /\ userAgent = ""
    /\ reqUA = ""
    /\ pc = "heap"
    /\ attempt = 0
    /\ maxAttempts = 0
    /\ lastErr = NilError
    /\ delay = 0
    /\ outcomes = << >>
    /\ waits = << >>
    /\ closed = {}
    /\ result = << >>
    /\ cancelAt = [pc |-> "never", n |-> 0]
    /\ reqOther = RequestHeaders
    /\ elapsed = 0
    /\ calls = NoCalls
    /\ newClient = NoNewClient

\* p := DefaultRetryOptions()
HeapDefaultRetryOptions ==
    /\ pc = "heap"
    /\ Len(heap.objs) < MaxObjects
    /\ LET al == AllocDefault(heap.objs)
       IN  heap' = [NoHeap EXCEPT !.objs = al.objs, !.fn = "DefaultRetryOptions",
                                  !.ret = al.addr]
    /\ UNCHANGED <<retryOpts, ctxErr, userAgent, reqUA, pc, attempt, maxAttempts,
                   lastErr, delay, outcomes, waits, closed, result, cancelAt, optsArg,
                   call, reqOther, elapsed, calls, newClient, goarch>>

\* the caller assigns to the fields of a policy it holds
HeapCallerWrites ==
    /\ pc = "heap"
    /\ \E a \in 1..Len(heap.objs), p \in CallerWrites :
          heap' = [NoHeap EXCEPT !.objs = [heap.objs EXCEPT ![a] = p], !.fn = "write",
                                 !.arg = a]
    /\ UNCHANGED <<retryOpts, ctxErr, userAgent, reqUA, pc, attempt, maxAttempts,
                   lastErr, delay, outcomes, waits, closed, result, cancelAt, optsArg,
                   call, reqOther, elapsed, calls, newClient, goarch>>

\* p.IsRetryableError(err, statusCode)
HeapIsRetryableError ==
    /\ pc = "heap"
    /\ \E a \in 1..Len(heap.objs), e \in ErrInputs, c \in StatusInputs :
          heap' = [NoHeap EXCEPT !.objs = heap.objs, !.fn = "IsRetryableError",
                                 !.arg = a, !.used = <<heap.objs[a]>>,
                                 !.retBool = IsRetryableError(heap.objs[a], e, c)]
    /\ UNCHANGED <<retryOpts, ctxErr, userAgent, reqUA, pc, attempt, maxAttempts,
                   lastErr, delay, outcomes, waits, closed, result, cancelAt, optsArg,
                   call, reqOther, elapsed, calls, newClient, goarch>>

\* p.CalculateRetryDelay(attempt)
HeapCalculateRetryDelay ==
    /\ pc = "heap"
    /\ \E a \in 1..Len(heap.objs), i \in 0..MaxAttemptArg :
          heap' = [NoHeap EXCEPT !.objs = heap.objs, !.fn = "CalculateRetryDelay",
                                 !.arg = a, !.used = <<heap.objs[a]>>,
                                 !.retDelay = CalculateRetryDelay(heap.objs[a], i)]
    /\ UNCHANGED <<retryOpts, ctxErr, userAgent, reqUA, pc, attempt, maxAttempts,
                   lastErr, delay, outcomes, waits, closed, result, cancelAt, optsArg,
                   call, reqOther, elapsed, calls, newClient, goarch>>

\* c.DoRequestWithRetry(ctx, req, p), p nil or a policy of the caller: the
\* whole call, a nil p being replaced by a DefaultRetryOptions() of its own
HeapDoRequestWithRetry ==
    /\ pc = "heap"
    /\ \E a \in 0..Len(heap.objs) :
          /\ a = 0 => Len(heap.objs) < MaxObjects
          /\ LET al == IF a = 0 THEN AllocDefault(heap.objs)
                       ELSE [objs |-> heap.objs, addr |-> a]
                 r == al.objs[al.addr]
             IN  \E res \in ResultsOf[goarch, r] :
                    heap' = [NoHeap EXCEPT !.objs = al.objs, !.fn = "DoRequestWithRetry",
                                           !.arg = a, !.used = <<r>>, !.result = res]
    /\ UNCHANGED <<retryOpts, ctxErr, userAgent, reqUA, pc, attempt, maxAttempts,
                   lastErr, delay, outcomes, waits, closed, result, cancelAt, optsArg,
                   call, reqOther, elapsed, calls, newClient, goarch>>

NextHeap ==
    \/ HeapDefaultRetryOptions
    \/ HeapCallerWrites
    \/ HeapIsRetryableError
    \/ HeapCalculateRetryDelay
    \/ HeapDoRequestWithRetry

SpecHeap == InitHeap /\ [][NextHeap]_vars

-----------------------------------------------------------------------------
(* Vocabulary of the properties *)

Done == pc = "done"
Started == pc # "entry"

\* the policy in force (defined once Enter has run)
Opts == retryOpts[1]

\* the returned pair
Res == result[1]

Invocations == Len(outcomes)

IsTransportError(o) == o.err # NilError
IsResponse(o) == o.err = NilError

InCodes(r, code) == \E i \in 1..Len(r.RetryableStatusCodes) : r.RetryableStatusCodes[i] = code

RetryableStatus(o) == IsResponse(o) /\ InCodes(Opts, o.status)
NonRetryableStatus(o) == IsResponse(o) /\ ~InCodes(Opts, o.status)

NeverCancelled == ctxErr = NilError

\* once returned, the call does nothing more
DoneIsFinal == Done => (outcomes' = outcomes /\ waits' = waits /\ result' = result)

-----------------------------------------------------------------------------
(* C1..C10: the attempt budget, cancellation and the returned error *)

C4_NonRetryableReturnsAtOnce ==
    [][/\ (Started /\ Invocations' = Invocations + 1
                   /\ NonRetryableStatus(outcomes'[Invocations']))
          => (pc' = "done" /\ waits' = waits
              /\ result' = <<[resp |-> Invocations', err |-> NilError]>>)
       /\ DoneIsFinal]_vars

C4_Witness ==
    /\ Done /\ Opts.MaxRetries = 2 /\ Invocations = 1
    /\ NonRetryableStatus(outcomes[1]) /\ outcomes[1].status = 503
    /\ Res = [resp |-> 1, err |-> NilError]
    /\ waits = << >>

\* C5: with MaxRetries = 0 the call makes exactly one invocation and never
\* waits; a response of any status is returned with a nil error, a transport
\* error as a nil response with an error wrapping it.
C5_ZeroRetriesOneAttempt ==
    (Started /\ Opts.MaxRetries = 0)
    => /\ waits = << >>
       /\ Invocations <= 1
       /\ Done =>
            /\ Invocations = 1
            /\ IsResponse(outcomes[1]) => Res = [resp |-> 1, err |-> NilError]
            /\ IsTransportError(outcomes[1]) =>
                 (Res.resp = 0 /\ Res.err # NilError /\ Res.err.wraps = outcomes[1].err.msg)

C5_Witness ==
    /\ Done /\ Opts.MaxRetries = 0 /\ Invocations = 1
    /\ RetryableStatus(outcomes[1])
    /\ Res = [resp |-> 1, err |-> NilError]

\* C6: with MaxRetries < 0 the call never invokes the requester, never waits
\* and returns a nil response with the "no attempts made" error, whatever
\* the state of the context.
C6_NegativeRetriesNoAttempt ==
    (Started /\ Opts.MaxRetries < 0)
    => /\ outcomes = << >>
       /\ waits = << >>
       /\ Done => Res = [resp |-> 0, err |-> NewError("no attempts made")]

C6_Witness ==
    /\ Done /\ Opts.MaxRetries = 0 - 2 /\ ctxErr # NilError
    /\ outcomes = << >>
    /\ Res.err = NewError("no attempts made")

\* C7: when the cancellation wins a backoff wait (the call returns out of
\* the wait), the call returns a nil response and the context's own error,
\* unwrapped, and makes no invocation afterwards.
C7_CancelledWaitReturnsCtxErr ==
    [][/\ (pc = "wait" /\ pc' = "done")
          => (ctxErr # NilError /\ outcomes' = outcomes
              /\ result' = <<[resp |-> 0, err |-> ctxErr]>>)
       /\ DoneIsFinal]_vars

C7_Witness ==
    /\ Done /\ Invocations = 2 /\ Len(waits) = 2
    /\ ctxErr = NewError("context deadline exceeded")
    /\ Res = [resp |-> 0, err |-> ctxErr]

\* the context was cancelled during the call, before the wait that precedes
\* the last allowed attempt (index MaxRetries) had ended
CancelledBeforeLastAttempt ==
    /\ cancelAt.pc \in {"loop", "wait", "do"}
    /\ \/ cancelAt.n < Opts.MaxRetries
       \/ cancelAt.n = Opts.MaxRetries /\ cancelAt.pc \in {"loop", "wait"}

EveryOutcomeRetryable ==
    \A i \in 1..Invocations : IsTransportError(outcomes[i]) \/ RetryableStatus(outcomes[i])

\* C8: if the context is cancelled during the call before the last allowed
\* attempt is issued and every outcome is retryable, the call returns the
\* cancellation error after strictly fewer than MaxRetries+1 invocations.
C8_CancelMidSequence ==
    (Done /\ Opts.MaxRetries >= 1 /\ CancelledBeforeLastAttempt /\ EveryOutcomeRetryable)
    => (Res = [resp |-> 0, err |-> ctxErr] /\ Invocations < Opts.MaxRetries + 1)

\* C9: a backoff wait never completes as elapsed while the context is
\* cancelled, whatever the delay (a zero delay included).
C9_WaitNeverMissesCancel ==
    [][(pc = "wait" /\ ctxErr # NilError) => pc' # "do"]_vars

\* C10: the returned error identifies its cause.  The context's error is
\* returned only when cancellation won a backoff wait; "failed to execute
\* request after retries" only for a transport error on attempt index
\* MaxRetries with MaxRetries > 0; "failed to execute request" only for a
\* transport error with MaxRetries = 0.
C10_ErrorIdentifiesCause ==
    Done =>
        /\ Res.err \in ContextErrors =>
             (Res.err = ctxErr /\ Len(waits) = Invocations /\ Len(waits) >= 1)
        /\ Res.err.msg = "failed to execute request after retries" =>
             (/\ Opts.MaxRetries > 0
              /\ Invocations = Opts.MaxRetries + 1
              /\ IsTransportError(outcomes[Invocations])
              /\ Res.err.wraps = outcomes[Invocations].err.msg)
        /\ Res.err.msg = "failed to execute request" =>
             (/\ Opts.MaxRetries = 0
              /\ Invocations = 1
              /\ IsTransportError(outcomes[Invocations])
              /\ Res.err.wraps = outcomes[Invocations].err.msg)

C10_Witness ==
    /\ Done /\ Opts.MaxRetries = 0
    /\ Res.err.msg = "failed to execute request"
    /\ Res.err.wraps = "EOF"


-----------------------------------------------------------------------------
(* C11..C20: the wrapped error, the policy functions, the default policy *)

TransportFailureMsgs ==
    {"failed to execute request", "failed to execute request after retries",
     "failed after retries"}

\* C11: a returned transport-failure error wraps the transport error of the
\* last invocation made (never an earlier error, never the "server error"
\* marker of a retried response), and a transport error on an attempt with
\* retries remaining (attempt < MaxRetries, MaxRetries > 0) does not end the
\* call.
C11_WrapsLastTransportError ==
    [][/\ (pc # "done" /\ pc' = "done" /\ result'[1].err.msg \in TransportFailureMsgs)
          => (/\ Invocations' >= 1
              /\ IsTransportError(outcomes'[Invocations'])
              /\ result'[1].err.wraps = outcomes'[Invocations'].err.msg)
       /\ (Started /\ Invocations' = Invocations + 1
                   /\ IsTransportError(outcomes'[Invocations'])
                   /\ Opts.MaxRetries > 0 /\ attempt < Opts.MaxRetries)
          => pc' # "done"]_vars

C11_Witness ==
    /\ Done /\ Opts.MaxRetries = 2 /\ Invocations = 3
    /\ outcomes[1].err = NewError("EOF")
    /\ RetryableStatus(outcomes[2])
    /\ outcomes[3].err = NewError("connection refused")
    /\ Res.err = WrapError("failed to execute request after retries", NewError("connection refused"))

Receiver == retryOpts[1]

CodeSet(r) == {r.RetryableStatusCodes[i] : i \in 1..Len(r.RetryableStatusCodes)}

\* C12: IsRetryableError returns false for every input when MaxRetries == 0.
C12_ZeroRetriesNeverRetryable ==
    (call.fn = "IsRetryableError" /\ Receiver.MaxRetries = 0) => call.retBool = FALSE

C12_Witness ==
    /\ call.fn = "IsRetryableError" /\ Receiver.MaxRetries = 0
    /\ call.err # NilError /\ call.statusCode = 503
    /\ Receiver.RetryableStatusCodes = <<503>>
    /\ call.retBool = FALSE

\* C13: when MaxRetries # 0, IsRetryableError returns true for every non-nil
\* error, whatever the status code and the list of codes (the empty one too).
C13_ErrorsAlwaysRetryable ==
    (call.fn = "IsRetryableError" /\ Receiver.MaxRetries # 0 /\ call.err # NilError)
    => call.retBool = TRUE

C13_Witness ==
    /\ call.fn = "IsRetryableError" /\ Receiver.MaxRetries = 0 - 1
    /\ call.err # NilError /\ call.statusCode = 200
    /\ Receiver.RetryableStatusCodes = << >>
    /\ call.retBool = TRUE

\* C14: when MaxRetries # 0 and the error is nil, IsRetryableError returns
\* true iff the status code is a member of the set of RetryableStatusCodes
\* (order and duplicates do not matter; the empty list gives false).
C14_StatusRetryableIffMember ==
    (call.fn = "IsRetryableError" /\ Receiver.MaxRetries # 0 /\ call.err = NilError)
    => (call.retBool <=> call.statusCode \in CodeSet(Receiver))

C14_Witness ==
    /\ call.fn = "IsRetryableError" /\ Receiver.MaxRetries = 1
    /\ call.err = NilError /\ call.statusCode = 500
    /\ Receiver.RetryableStatusCodes = <<503, 500>>
    /\ call.retBool = TRUE

Min(a, b) == IF a <= b THEN a ELSE b

\* RetryDelay * (i+1) * BackoffMultiplier, as numerator over the multiplier's
\* denominator
RawNum(r, i) == r.RetryDelay * (i + 1) * r.BackoffMultiplier[1]
RawDen(r) == r.BackoffMultiplier[2]

IsExample(r, rd, mrd, m) ==
    /\ r.RetryDelay = rd * Millisecond
    /\ r.MaxRetryDelay = mrd * Millisecond
    /\ r.BackoffMultiplier = m

\* the policy respects the declared domain: durations and multiplier >= 0
NonNegative(r) ==
    r.RetryDelay >= 0 /\ r.MaxRetryDelay >= 0 /\ r.BackoffMultiplier[1] >= 0

C16_DelayNeverExceedsMax ==
    Started =>
        /\ \A a \in 0..MaxAttemptArg : CalculateRetryDelay(Opts, a) <= Opts.MaxRetryDelay
        /\ \A i \in 1..Len(waits) : waits[i] <= Opts.MaxRetryDelay

C16_Witness ==
    /\ Len(waits) = 2
    /\ Opts.RetryDelay = 1 /\ Opts.BackoffMultiplier = <<2, 1>> /\ Opts.MaxRetryDelay = 1
    /\ waits = <<1, 1>>

\* C17: the wait between the first attempt and the first retry lasts
\* RetryDelay (when RetryDelay <= MaxRetryDelay), for every BackoffMultiplier.
C17_FirstWaitIsRetryDelay ==
    (Len(waits) >= 1 /\ Opts.RetryDelay <= Opts.MaxRetryDelay) => waits[1] = Opts.RetryDelay

\* C18: while below the MaxRetryDelay cap, the delay for attempt i+1 equals
\* the delay for attempt i multiplied by BackoffMultiplier (stated here for
\* whole multipliers, where no product has a fraction to drop).
C18_ExponentialBackoff ==
    (call.fn = "CalculateRetryDelay" /\ NonNegative(Receiver) /\ RawDen(Receiver) = 1
        /\ call.attempt >= 1
        /\ call.retDelay < Receiver.MaxRetryDelay)
    => call.retDelay * RawDen(Receiver)
         = CalculateRetryDelay(Receiver, call.attempt - 1) * Receiver.BackoffMultiplier[1]

\* C19: DefaultRetryOptions returns MaxRetries 3, RetryDelay 100ms,
\* MaxRetryDelay 2s, BackoffMultiplier 2.0 and the codes 408, 429, 500, 502,
\* 503, 504 in that order.
C19_DefaultPolicy ==
    call.fn = "DefaultRetryOptions"
    => /\ Len(call.retOpts) = 1
       /\ call.retOpts[1].MaxRetries = 3
       /\ call.retOpts[1].RetryDelay = 100 * Millisecond
       /\ call.retOpts[1].MaxRetryDelay = 2000 * Millisecond
       /\ call.retOpts[1].BackoffMultiplier[1] = 2 * call.retOpts[1].BackoffMultiplier[2]
       /\ call.retOpts[1].RetryableStatusCodes = <<408, 429, 500, 502, 503, 504>>

C19_Witness ==
    /\ call.fn = "DefaultRetryOptions"
    /\ call.retOpts[1].RetryableStatusCodes[4] = 502

DefaultCodes == {408, 429, 500, 502, 503, 504}

\* C20: a call with a nil policy runs with the policy of DefaultRetryOptions:
\* at most 4 invocations, waits of 200ms, 400ms, 600ms, and a response with
\* one of the statuses 408/429/500/502/503/504 is returned only by the last
\* allowed attempt.
C20_NilPolicyIsDefault ==
    (Started /\ optsArg = << >>)
    => /\ retryOpts = <<DefaultRetryOptions>>
       /\ Invocations <= 4
       /\ Len(waits) <= 3
       /\ \A i \in 1..Len(waits) : waits[i] = 200 * i * Millisecond
       /\ (Done /\ Res.resp \in 1..3) => outcomes[Res.resp].status \notin DefaultCodes

C20_Witness ==
    /\ Done /\ optsArg = << >> /\ NeverCancelled
    /\ Invocations = 4
    /\ waits = <<200 * Millisecond, 400 * Millisecond, 600 * Millisecond>>
    /\ Res = [resp |-> 4, err |-> NilError]
    /\ outcomes[4].status = 503

-----------------------------------------------------------------------------
(* C21..C30: bounds, headers, waits, bodies, cancellation points, termination *)

Max(a, b) == IF a >= b THEN a ELSE b

\* the policy the call runs with, known from its argument
Policy == ResolveOpts(optsArg)[1]

\* C21: in every reachable state of one call, whatever the policy, the
\* outcomes and the cancellation, the number of invocations made so far is at
\* most max(MaxRetries + 1, 0).
C21_InvocationsBounded == Invocations <= Max(Policy.MaxRetries + 1, 0)

C21_Witness ==
    /\ pc = "loop" /\ ctxErr # NilError
    /\ Policy.MaxRetries = MaxRetriesBound
    /\ Invocations = MaxRetriesBound

\* for each policy, what a call run alone can be found in: its position, its
\* outcomes so far, the state of its context, its waits and its result
Alone == [g \in GoArchs, p \in SharedPolicies |-> Closure(InitLocals, p[1], g)]

Invokes == Invocations' = Invocations + 1

C24_ErrorsGiveNoClient ==
    /\ newClient.fn = "Validate"
         => ((newClient.err # NilError) <=> (newClient.opts[1].BaseURL = ""))
    /\ newClient.fn = "NewClient"
         => /\ newClient.err # NilError => newClient.client = << >>
            /\ newClient.opts = NoOptions => newClient.err # NilError
            /\ newClient.opts # NoOptions =>
                 LET o == newClient.opts[1]
                 IN  /\ o.BaseURL = "" => newClient.err # NilError
                     /\ (o.TLSCACertFile # "" /\ newClient.caFile # "valid")
                          => newClient.err # NilError
                     /\ (o.TLSClientCert # "" /\ o.TLSClientKey # ""
                           /\ newClient.keyPair = "unloadable")
                          => newClient.err # NilError

C24_Witness ==
    /\ newClient.fn = "NewClient"
    /\ newClient.opts # NoOptions
    /\ newClient.opts[1].BaseURL # ""
    /\ newClient.opts[1].Transport = CustomTransport
    /\ newClient.opts[1].TLSCACertFile # ""
    /\ newClient.caFile = "unparsable"
    /\ newClient.err = NewError("failed to parse CA certificate")
    /\ newClient.client = << >>

\* C25: NewClient installs the caller's Transport unchanged, also when TLS
\* options are set, whose settings are then not applied; without a caller's
\* Transport it installs a transport configured for TLS exactly when
\* TLSCACertFile or TLSClientCert is non-empty or InsecureSkipVerify is true;
\* otherwise it sets no transport.
C25_TransportPrecedence ==
    (newClient.fn = "NewClient" /\ newClient.err = NilError)
    => LET o == newClient.opts[1]
           t == newClient.client[1].httpClient.Transport
       IN  IF o.Transport # NilTransport
           THEN t = o.Transport
           ELSE /\ (t.kind = "tls") <=> (o.TLSCACertFile # "" \/ o.TLSClientCert # ""
                                          \/ o.InsecureSkipVerify)
                /\ t.kind = "tls" => /\ t.InsecureSkipVerify = o.InsecureSkipVerify
                                     /\ t.ServerName = o.TLSServerName
                /\ t.kind # "tls" => t = NilTransport

C25_Witness ==
    /\ newClient.fn = "NewClient" /\ newClient.err = NilError
    /\ newClient.opts[1].Transport = CustomTransport
    /\ newClient.opts[1].InsecureSkipVerify
    /\ newClient.opts[1].TLSCACertFile # ""
    /\ newClient.opts[1].TLSServerName # ""
    /\ newClient.client[1].httpClient.Transport = CustomTransport

\* the call returned the context's error
ReturnedCtxErr == Done /\ Res.err \in ContextErrors

\* no wait precedes the first invocation and exactly one completed wait lies
\* between two invocations
OneWaitBetweenInvocations ==
    /\ pc = "do" => elapsed = Invocations
    /\ (pc # "do" /\ Invocations >= 1) => elapsed = Invocations - 1
    /\ Invocations = 0 => elapsed = 0

\* C26 as stated: no wait precedes the first invocation, exactly one completed
\* wait precedes every later invocation, and a call that ends without
\* cancellation has completed as many waits as its invocations minus one.
C26_WaitsAreInvocationsMinusOne ==
    /\ OneWaitBetweenInvocations
    /\ (Done /\ ~ReturnedCtxErr) => elapsed = Invocations - 1

\* C26, amended: ... a call that ends without cancellation after at least one
\* invocation has completed as many waits as its invocations minus one, and a
\* call that made no invocation has completed none.
C26_WaitsBetweenInvocations ==
    /\ OneWaitBetweenInvocations
    /\ (Done /\ ~ReturnedCtxErr) => elapsed = Max(Invocations - 1, 0)

C26_Witness ==
    /\ Done /\ ~ReturnedCtxErr
    /\ Invocations = MaxRetriesBound + 1
    /\ elapsed = MaxRetriesBound

Responses == {i \in 1..Invocations : IsResponse(outcomes[i])}

\* C28: the body of every response discarded for a retry is closed before
\* the following wait and attempt begin, the body of the response returned to
\* the caller is not closed, and at return every body obtained during the
\* call is closed except the body of the returned response.
C28_DiscardedBodiesClosed ==
    /\ ~Done => closed = Responses
    /\ Done => /\ closed = Responses \ {Res.resp}
               /\ Res.resp # 0 => (Res.resp = Invocations /\ Res.resp \in Responses)

C28_Witness ==
    /\ Done
    /\ Res.resp = 3
    /\ closed = {2}
    /\ IsTransportError(outcomes[1])

\* the outcome of the attempt of 0-based index a ends the call
EndsCall(o, a) ==
    \/ IsResponse(o) /\ ~(IsRetryableError(Opts, NilError, o.status) /\ a < Opts.MaxRetries)
    \/ IsTransportError(o) /\ (~IsRetryableError(Opts, o.err, 0) \/ a >= Opts.MaxRetries)

\* the call returned what the outcome of its last invocation asks for
ReturnedLastOutcome ==
    LET o == outcomes[Invocations]
    IN  IF IsResponse(o)
        THEN Res = [resp |-> Invocations, err |-> NilError]
        ELSE Res.resp = 0 /\ Res.err.wraps = o.err.msg /\ Res.err \notin ContextErrors

C30_Terminates ==
    /\ <>Done
    /\ [](/\ Invocations <= Max(Policy.MaxRetries + 1, 0)
          /\ Len(waits) <= Max(Policy.MaxRetries, 0))

C30_Witness ==
    /\ Done /\ NeverCancelled
    /\ Policy.MaxRetries = MaxRetriesBound
    /\ Len(waits) = MaxRetriesBound
    /\ elapsed = MaxRetriesBound
    /\ Res.resp = 0

-----------------------------------------------------------------------------
(* C31..C35: the code after the loop, mixed outcomes, the returned pair,    *)
(* monotonic delays, the policy as a read-only value                        *)

MixedFailures ==
    \A i \in 1..Invocations : IsTransportError(outcomes[i]) \/ RetryableStatus(outcomes[i])

\* C32: transport errors and retryable statuses draw on one attempt budget,
\* and the result of an uncancelled call is that of its last invocation
\* alone: for every mixed sequence of transport errors and retryable-status
\* responses the call makes MaxRetries + 1 invocations; if the last returned a
\* response, that response is returned with a nil error; if it returned a
\* transport error, a nil response and an error wrapping it are returned.
C32_LastOutcomeDecides ==
    (Done /\ NeverCancelled /\ Invocations >= 1 /\ MixedFailures)
    => /\ Invocations = Opts.MaxRetries + 1
       /\ IsResponse(outcomes[Invocations])
            => Res = [resp |-> Invocations, err |-> NilError]
       /\ IsTransportError(outcomes[Invocations])
            => (/\ Res.resp = 0
                /\ Res.err # NilError
                /\ Res.err.wraps = outcomes[Invocations].err.msg)

C32_Witness ==
    /\ Done /\ NeverCancelled /\ Opts.MaxRetries = 2
    /\ RetryableStatus(outcomes[1])
    /\ IsTransportError(outcomes[2])
    /\ RetryableStatus(outcomes[3])
    /\ Res = [resp |-> 3, err |-> NilError]

\* C33: every return yields exactly one of a response and an error: never a
\* response together with an error, never a nil response with a nil error.
C33_ExactlyOneOfResponseAndError ==
    Done => ((Res.resp # 0) <=> (Res.err = NilError))

C33_Witness ==
    /\ Done
    /\ cancelAt.pc = "wait"
    /\ Res = [resp |-> 0, err |-> ctxErr]
    /\ closed = {1}
    /\ Invocations = 1

\* C34 as stated: for a policy with non-negative RetryDelay, MaxRetryDelay
\* and BackoffMultiplier, CalculateRetryDelay is non-negative and
\* non-decreasing in the attempt index, and once it has reached MaxRetryDelay
\* it stays there.
C34_DelaysNeverShrink ==
    (call.fn = "CalculateRetryDelay" /\ NonNegative(Receiver))
    => /\ call.retDelay >= 0
       /\ \A j \in call.attempt..MaxAttemptArg :
            /\ call.retDelay <= CalculateRetryDelay(Receiver, j)
            /\ call.retDelay = Receiver.MaxRetryDelay
                 => CalculateRetryDelay(Receiver, j) = Receiver.MaxRetryDelay

\* C35: the policy is read-only during execution.  DoRequestWithRetry,
\* IsRetryableError and CalculateRetryDelay work with the policy they are
\* given and leave every field of every policy as it is; each call of
\* DefaultRetryOptions returns a policy that did not exist before and has the
\* default values; so a call with a nil policy runs with the default values
\* whatever was written to a default returned earlier.
C35_PolicyIsReadOnly ==
    [][/\ heap'.fn # "write"
            => \A a \in 1..Len(heap.objs) : heap'.objs[a] = heap.objs[a]
       /\ heap'.fn = "DefaultRetryOptions"
            => /\ heap'.ret \notin 1..Len(heap.objs)
               /\ heap'.objs[heap'.ret] = DefaultRetryOptions
       /\ (heap'.fn \in {"IsRetryableError", "CalculateRetryDelay", "DoRequestWithRetry"}
             /\ heap'.arg # 0)
            => heap'.used = <<heap.objs[heap'.arg]>>
       /\ (heap'.fn = "DoRequestWithRetry" /\ heap'.arg = 0)
            => heap'.used = <<DefaultRetryOptions>>]_vars

C35_Witness ==
    /\ heap.fn = "DoRequestWithRetry" /\ heap.arg = 0
    /\ Len(heap.objs) = 2
    /\ heap.objs[1].MaxRetries = 0
    /\ heap.used = <<DefaultRetryOptions>>
    /\ heap.result = <<[resp |-> 4, err |-> NilError]>>

=============================================================================
